---- MODULE Spec2Model ----
(***************************************************************************)
(* FeatureExtraction (pyannote/audio/features/base.py): the abstract base  *)
(* class of feature extractors, its full-file extraction (__call__) and    *)
(* its context-padded cropping (crop).                                     *)
(*                                                                         *)
(* Time is counted in integer ticks.  The start of a sliding window may    *)
(* fall on a half tick (start = -duration/2), so a window carries start2,  *)
(* twice its start, and every quotient below is taken over doubled         *)
(* numerators: the arithmetic is exact, as the code's is up to float       *)
(* rounding.                                                               *)
(***************************************************************************)
EXTENDS Integers, Naturals, Sequences, FiniteSets, TLC

VARIABLES extractor, current_file, last

vars == <<extractor, current_file, last>>

(***************************************************************************)
(* Bounds of the model.                                                    *)
(***************************************************************************)
\* duration of the audio file, in ticks
MaxDuration == 6
\* step of the sliding window, in ticks
StepTicks == 2
\* the non-zero context duration of an extractor or normalizer, in ticks
MaxContext == 1
\* ticks per millisecond (resolution of the 3-decimal formatting)
TicksPerMilli == 3

None == -1

(***************************************************************************)
(* numpy / Python arithmetic.                                              *)
(***************************************************************************)
Max(a, b) == IF a >= b THEN a ELSE b
Min(a, b) == IF a <= b THEN a ELSE b

\* np.floor(a / b), b > 0
Floor(a, b) == a \div b

\* np.ceil(a / b), b > 0
Ceil(a, b) == -((-a) \div b)

\* np.rint(a / b), b > 0: nearest integer, a tie goes to the even one
Rint(a, b) ==
    LET q == (2 * a + b) \div (2 * b)
        tie == (2 * a + b) % (2 * b) = 0
    IN  IF tie /\ q % 2 # 0 THEN q - 1 ELSE q

\* features[start:end] on an array of n rows: the indices Python selects
\* (a negative index counts from the end, then both are clipped to 0..n)
PyIndex(n, i) == IF i < 0 THEN Max(i + n, 0) ELSE Min(i, n)

PySlice(n, start, end) ==
    LET a == PyIndex(n, start)
        b == PyIndex(n, end)
    IN  IF a < b THEN [k \in 1..(b - a) |-> a + k - 1] ELSE << >>

\* f"{t:.3f}": t seconds to the millisecond.  The value formatted is the
\* binary float nearest to t, so a decimal tie goes either way.
Fmt3(t) ==
    LET lo == (t \div TicksPerMilli)
        r2 == 2 * (t % TicksPerMilli)
    IN  IF r2 < TicksPerMilli THEN {lo}
        ELSE IF r2 > TicksPerMilli THEN {lo + 1}
        ELSE {lo, lo + 1}

(***************************************************************************)
(* str.format, as `msg.format(uri=uri)` applies it: a string is a sequence *)
(* of pieces, the pieces "{" and "}" being the brace characters.           *)
(***************************************************************************)
Digits == {"0", "1", "2", "3", "4", "5", "6", "7", "8", "9"}
UriField == <<"u", "r", "i">>

\* index of the first "}" of s at or after i, 0 when there is none
RECURSIVE ClosingBrace(_, _)
ClosingBrace(s, i) ==
    IF i > Len(s) THEN 0
    ELSE IF s[i] = "}" THEN i
    ELSE ClosingBrace(s, i + 1)

\* the replacement field `name` looked up in the keyword arguments {uri}
FieldLookup(name, uri) ==
    IF name = UriField THEN [error |-> "None", text |-> uri]
    ELSE IF name = << >> \/ name[1] \in Digits
         THEN [error |-> "IndexError", text |-> << >>]
    ELSE [error |-> "KeyError", text |-> << >>]

RECURSIVE StrFormat(_, _, _)
StrFormat(s, i, uri) ==
    IF i > Len(s) THEN [error |-> "None", text |-> << >>]
    ELSE IF s[i] = "{" /\ i < Len(s) /\ s[i + 1] = "{"
         THEN LET rest == StrFormat(s, i + 2, uri)
              IN  [rest EXCEPT !.text = <<"{">> \o @]
    ELSE IF s[i] = "}" /\ i < Len(s) /\ s[i + 1] = "}"
         THEN LET rest == StrFormat(s, i + 2, uri)
              IN  [rest EXCEPT !.text = <<"}">> \o @]
    ELSE IF s[i] = "}" THEN [error |-> "ValueError", text |-> << >>]
    ELSE IF s[i] = "{"
         THEN LET j == ClosingBrace(s, i + 1)
              IN  IF j = 0 THEN [error |-> "ValueError", text |-> << >>]
                  ELSE LET field == FieldLookup(SubSeq(s, i + 1, j - 1), uri)
                           rest == StrFormat(s, j + 1, uri)
                       IN  IF field.error # "None" THEN field
                           ELSE [rest EXCEPT !.text = field.text \o @]
    ELSE LET rest == StrFormat(s, i + 1, uri)
         IN  [rest EXCEPT !.text = <<s[i]>> \o @]

(***************************************************************************)
(* pyannote.core: Segment, SlidingWindow.  A window is                     *)
(* [start2, step, duration], a segment [start, end].                       *)
(***************************************************************************)
Segment(start, end) == [start |-> start, end |-> end]

SlidingWindow(start2, step, duration) ==
    [start2 |-> start2, step |-> step, duration |-> duration]

\* SlidingWindow.closest_frame(t): rint((t - start - duration / 2) / step)
closest_frame(w, t) == Rint(2 * t - w.start2 - w.duration, 2 * w.step)

\* SlidingWindow.samples(from_duration, mode)
samples(w, from_duration, mode) ==
    CASE mode = "strict" -> Floor(from_duration - w.duration, w.step) + 1
      [] mode = "loose"  -> Floor(from_duration + w.duration, w.step)
      [] mode = "center" -> Rint(from_duration, w.step)

\* SlidingWindow.crop(focus, mode, fixed, return_ranges=True): the range
\* <<i, j>> of frame indices, j excluded
SlidingWindowCrop(w, focus, mode, fixed) ==
    LET i == CASE mode = "loose" ->
                    Ceil(2 * focus.start - 2 * w.duration - w.start2, 2 * w.step)
               [] mode = "strict" ->
                    Ceil(2 * focus.start - w.start2, 2 * w.step)
               [] mode = "center" -> closest_frame(w, focus.start)
        j == CASE mode = "loose" ->
                    Floor(2 * focus.end - w.start2, 2 * w.step)
               [] mode = "strict" ->
                    Floor(2 * focus.end - 2 * w.duration - w.start2, 2 * w.step)
               [] mode = "center" -> closest_frame(w, focus.end)
    IN  IF fixed = None THEN <<i, j + 1>>
        ELSE <<i, i + samples(w, fixed, mode)>>

(***************************************************************************)
(* The extractor, the file descriptors and the record of a call.           *)
(***************************************************************************)
Modes == {"center", "strict", "loose"}

Uris == { <<"a", "b">>, <<"a", "{", "b", "}">> }

\* duration of the frames of a subclass: two and a half steps
FrameDuration == 2 * StepTicks + 1

\* the sliding windows a subclass declares: frames centred on multiples of
\* the step (start = -duration / 2), or frames starting at 0
Windows ==
    { SlidingWindow(-FrameDuration, StepTicks, FrameDuration),
      SlidingWindow(0, StepTicks, FrameDuration) }

\* RawAudio(sample_rate=self.sample_rate, mono=True)
RawAudio(sample_rate) == [sample_rate |-> sample_rate, mono |-> TRUE]

\* FeatureExtraction.__init__ (and the subclass's own configuration)
Construct(augmentation, normalization, sample_rate, overridden, context, window) ==
    [ augmentation  |-> augmentation,
      normalization |-> normalization,
      sample_rate   |-> sample_rate,
      raw_audio_    |-> RawAudio(sample_rate),
      overridden    |-> overridden,
      context       |-> context,
      window        |-> window ]

\* the collaborators an extractor is constructed with: none, or both
Collaborators == { <<"None", "None">>, <<"Augmentation", "Normalization">> }

\* the base class itself, a subclass that leaves get_sliding_window out, and
\* complete subclasses with their window and context duration
Extractors ==
    { Construct(c[1], c[2], 16000, o, 0,
                SlidingWindow(0, StepTicks, FrameDuration)) :
        c \in Collaborators, o \in { {}, {"get_features", "get_dimension"} } }
    \cup
    { Construct(c[1], c[2], 16000,
                {"get_features", "get_dimension", "get_sliding_window"},
                context, w) :
        c \in Collaborators, context \in {0, MaxContext}, w \in Windows }

\* a `pyannote.database` file: its uri, whether it carries a pre-loaded
\* 'waveform', the duration of its audio and what the audio holds: "ok",
\* "silent" (valid audio whose features contain NaN) or "corrupt" (samples
\* that are not finite: librosa.util.valid_audio rejects them, and the
\* features computed from them contain NaN)
Files ==
    [ uri : Uris, waveform : {FALSE}, duration : {MaxDuration},
      audio : {"ok", "silent", "corrupt"} ]
    \cup
    [ uri : {<<"a", "b">>}, waveform : {TRUE}, duration : {MaxDuration},
      audio : {"ok"} ]

\* the segments [s, e) with 0 <= s <= e <= duration
Segments(duration) ==
    UNION { { Segment(s, e) : e \in s..duration } : s \in 0..duration }

NoSegment == Segment(None, None)

\* what a call leaves behind for its caller to observe
Blank(op, file) ==
    [ op       |-> op,            \* the method called
      file     |-> file,          \* the file descriptor passed in
      segment  |-> NoSegment,     \* crop's arguments
      mode     |-> "None",
      fixed    |-> None,
      outcome  |-> "return",      \* "return" or the exception raised
      message  |-> << >>,         \* the message of the exception
      rows     |-> << >>,         \* the feature rows returned
      warnings |-> << >>,         \* warnings.warn calls
      loader   |-> << >>,         \* calls of the audio loader, in order
      invoked  |-> << >>,         \* collaborators invoked, in order
      xsegment |-> NoSegment,     \* crop's extended segment
      range    |-> <<0, 0>>,      \* crop's (start, end)
      n        |-> 0 ]            \* rows computed by get_features

(***************************************************************************)
(* Collaborators: the subclass's feature algorithm, the normalizer and the *)
(* audio loader.                                                           *)
(***************************************************************************)
\* rows a subclass computes over a waveform of duration d: one per frame of
\* its window whose centre lies in the waveform
NumFrames(w, d) == Max(0, Floor(2 * d - w.start2 - w.duration, 2 * w.step) + 1)

\* get_features of a subclass over the waveform that starts at time origin
\* of the file and lasts d: row k is frame k of the window laid over that
\* waveform, identified by twice the file time at which the frame starts
SubclassFeatures(e, file, origin, d, augmented) ==
    [ k \in 1..NumFrames(e.window, d) |->
        [ frame      |-> 2 * origin + e.window.start2 + 2 * (k - 1) * e.window.step,
          nan        |-> file.audio # "ok",
          augmented  |-> augmented,
          normalized |-> FALSE ] ]

\* the normalizer rescales every row and keeps their number and order
Normalize(rows) == [ k \in DOMAIN rows |-> [rows[k] EXCEPT !.normalized = TRUE] ]

\* get_context_duration of the normalizer
NormalizationContext == MaxContext

\* librosa.util.valid_audio(y, mono=True) raises on the loaded waveform
InvalidAudio(file) == file.audio = "corrupt"

\* get_unique_identifier(current_file) of a file without database or channel
get_unique_identifier(file) == file.uri

(***************************************************************************)
(* FeatureExtraction.                                                      *)
(***************************************************************************)
\* get_dimension, get_sliding_window, get_features raise NotImplementedError
\* unless the subclass overrides them
NotImplemented(e, method) == method \notin e.overridden

\* get_context_duration: 0. unless overridden
get_context_duration(e) == e.context

\* np.any(np.isnan(features))
AnyNaN(rows) == \E k \in DOMAIN rows : rows[k].nan

\* f'Features extracted from "{uri}" contain NaNs.'
NaNMessage(uri) ==
    <<"Features extracted from \"">> \o uri \o <<"\" contain NaNs.">>

\* warnings.warn(msg.format(uri=uri))
NaNWarning(uri) == StrFormat(NaNMessage(uri), 1, uri)

\* the waveform of __call__: the file's 'waveform', or read_audio
CallLoader(file) ==
    IF file.waveform THEN << >>
    ELSE << [fn |-> "read_audio", segment |-> NoSegment] >>

Augmented(e) == e.augmentation # "None"

AugmentationCalls(e) == IF Augmented(e) THEN <<"augmentation">> ELSE << >>

\* __call__(current_file)
CallResult(e, file) ==
    LET r0 == [Blank("__call__", file) EXCEPT
                 !.loader = CallLoader(file),
                 !.invoked = AugmentationCalls(e)]
        features == SubclassFeatures(e, file, 0, file.duration, Augmented(e))
        r1 == [r0 EXCEPT !.invoked = @ \o <<"get_features">>,
                         !.n = Len(features)]
        warning == NaNWarning(get_unique_identifier(file))
        r2 == IF AnyNaN(features)
              THEN [r1 EXCEPT !.warnings = <<warning.text>>]
              ELSE r1
    IN  IF NotImplemented(e, "get_features")
        THEN [r0 EXCEPT !.outcome = "NotImplementedError"]
        ELSE IF AnyNaN(features) /\ warning.error # "None"
        THEN [r1 EXCEPT !.outcome = warning.error]
        ELSE IF NotImplemented(e, "get_sliding_window")
        THEN [r2 EXCEPT !.outcome = "NotImplementedError"]
        ELSE IF e.normalization # "None"
        THEN [r2 EXCEPT !.invoked = @ \o <<"normalization">>,
                        !.rows = Normalize(features)]
        ELSE [r2 EXCEPT !.rows = features]

\* duration of the file: len(y) / sample_rate of its 'waveform', or
\* get_audio_duration
Duration(file) == file.duration

\* context = self.get_context_duration() (+ the normalizer's, if any)
Context(e) ==
    get_context_duration(e)
      + (IF e.normalization # "None" THEN NormalizationContext ELSE 0)

\* a faulty ExtendedSegment: the extension without the clamp to the file
ExtendedSegmentUnclamped(segment, context, duration) ==
    Segment(segment.start - context, segment.end + context)

\* extend segment on both sides with requested context
ExtendedSegment(segment, context, duration) ==
    Segment(Max(0, segment.start - context), Min(duration, segment.end + context))

\* the audio loader, as crop calls it
CropLoader(file, xsegment) ==
    (IF file.waveform THEN << >>
     ELSE << [fn |-> "get_audio_duration", segment |-> NoSegment] >>)
      \o << [fn |-> "crop", segment |-> xsegment] >>

\* a faulty ExtractionErrorMessage: the file's uri is left out
ExtractionErrorMessageWithoutUri(file, start, end) ==
    << "Something went wrong when trying to extract waveform of file ",
       << >>, " between ", start, "s and ", end, "s." >>

\* the message of the error raised when the waveform is not valid audio;
\* start and end are xsegment.start and xsegment.end as :.3f prints them
ExtractionErrorMessage(file, start, end) ==
    << "Something went wrong when trying to extract waveform of file ",
       file.uri, " between ", start, "s and ", end, "s." >>

\* the message is formatted only when the waveform is not valid audio
Formatted(file, t) == IF InvalidAudio(file) THEN Fmt3(t) ELSE {None}

\* the exception raised when the waveform is not valid audio
ExtractionError == "ValueError"

\* SlidingWindow(start=xsegment.start - frames.step, step=frames.step,
\*               duration=frames.duration)
ShiftedFrames(frames, xsegment) ==
    SlidingWindow(2 * (xsegment.start - frames.step), frames.step, frames.duration)

\* (start, end), = shifted_frames.crop(segment, mode=mode, fixed=fixed,
\*                                     return_ranges=True)
CropRange(frames, xsegment, segment, mode, fixed) ==
    SlidingWindowCrop(ShiftedFrames(frames, xsegment), segment, mode, fixed)

\* features[start:end]
CropRows(features, range) ==
    LET idx == PySlice(Len(features), range[1], range[2])
    IN  [ k \in DOMAIN idx |-> features[idx[k] + 1] ]

\* crop(current_file, segment, mode, fixed); start and end are the two
\* numbers of the error message
CropResult(e, file, segment, mode, fixed, start, end) ==
    LET duration == Duration(file)
        xsegment == ExtendedSegment(segment, Context(e), duration)
        r0 == [Blank("crop", file) EXCEPT
                 !.segment = segment, !.mode = mode, !.fixed = fixed,
                 !.xsegment = xsegment,
                 !.loader = CropLoader(file, xsegment)]
        r1 == [r0 EXCEPT !.invoked = AugmentationCalls(e)]
        raw == SubclassFeatures(e, file, xsegment.start,
                                xsegment.end - xsegment.start, Augmented(e))
        r2 == [r1 EXCEPT !.invoked = @ \o <<"get_features">>, !.n = Len(raw)]
        normalize == e.normalization # "None"
        features == IF normalize THEN Normalize(raw) ELSE raw
        r3 == IF normalize
              THEN [r2 EXCEPT !.invoked = @ \o <<"normalization">>]
              ELSE r2
        range == CropRange(e.window, xsegment, segment, mode, fixed)
    IN  IF InvalidAudio(file)
        THEN [r0 EXCEPT !.outcome = ExtractionError,
                        !.message = ExtractionErrorMessage(file, start, end)]
        ELSE IF NotImplemented(e, "get_features")
        THEN [r1 EXCEPT !.outcome = "NotImplementedError"]
        ELSE IF NotImplemented(e, "get_sliding_window")
        THEN [r2 EXCEPT !.outcome = "NotImplementedError"]
        ELSE [r3 EXCEPT !.range = range, !.rows = CropRows(features, range)]

\* the properties `dimension` and `sliding_window`
PropertyResult(e, file, op, method) ==
    [Blank(op, file) EXCEPT
       !.outcome = IF NotImplemented(e, method)
                   THEN "NotImplementedError" ELSE "return"]

(***************************************************************************)
(* The state machine: an extractor constructed once and called on a file.  *)
(***************************************************************************)
Init ==
    /\ extractor \in Extractors
    /\ current_file \in Files
    /\ last = Blank("none", current_file)

\* features = extractor(current_file)
Call ==
    /\ last' = CallResult(extractor, current_file)
    /\ UNCHANGED <<extractor, current_file>>

\* a faulty Crop: it keeps the waveform it loaded in the file descriptor
CropCachingWaveform(segment, mode, fixed) ==
    /\ last' = CropResult(extractor, current_file, segment, mode, fixed,
                          None, None)
    /\ current_file' = [current_file EXCEPT !.waveform = TRUE]
    /\ UNCHANGED extractor

\* features = extractor.crop(current_file, segment, mode=mode, fixed=fixed)
Crop(segment, mode, fixed) ==
    LET xsegment == ExtendedSegment(segment, Context(extractor),
                                    Duration(current_file))
    IN  \E start \in Formatted(current_file, xsegment.start),
           end \in Formatted(current_file, xsegment.end) :
          /\ last' = CropResult(extractor, current_file, segment, mode, fixed,
                                start, end)
          /\ UNCHANGED <<extractor, current_file>>

\* extractor.dimension
Dimension ==
    /\ last' = PropertyResult(extractor, current_file, "dimension", "get_dimension")
    /\ UNCHANGED <<extractor, current_file>>

\* extractor.sliding_window
GetSlidingWindow ==
    /\ last' = PropertyResult(extractor, current_file, "sliding_window",
                              "get_sliding_window")
    /\ UNCHANGED <<extractor, current_file>>

Next ==
    \/ Call
    \/ \E segment \in Segments(Duration(current_file)), mode \in Modes :
         \E fixed \in {None, segment.end - segment.start} :
           Crop(segment, mode, fixed)
    \/ Dimension
    \/ GetSlidingWindow

Spec == Init /\ [][Next]_vars

(***************************************************************************)
(* Reference: what the extractor's own sliding window assigns to a         *)
(* segment of the file, and the full-file extraction.                      *)
(***************************************************************************)
RangeLen(range) == Max(0, range[2] - range[1])

\* the frames (twice their start times) of window w at the indices of range
FramesOf(w, range) ==
    [ k \in 1..RangeLen(range) |-> w.start2 + 2 * (range[1] + k - 1) * w.step ]

\* the frames of the rows of a feature sequence
RowFrames(rows) == [ k \in DOMAIN rows |-> rows[k].frame ]

\* rows of the full-file extraction at the indices of range that exist
FullFileRows(e, file, range) ==
    LET all == CallResult(e, file).rows
        a == Max(0, range[1])
        b == Min(Len(all), range[2])
    IN  [ k \in 1..Max(0, b - a) |-> all[a + k] ]

Cropped == last.op = "crop" /\ last.outcome = "return"

SegmentDuration(segment) == segment.end - segment.start

\* a crop that returned, of a segment at least one frame long: the claims
\* about the rows of crop are read in their favour, for such segments only
CroppedFrames ==
    Cropped /\ SegmentDuration(last.segment) >= extractor.window.duration

(***************************************************************************)
(* C1: for every segment, context and mode/fixed, crop returns as many     *)
(* rows as the extractor's own sliding window assigns frames to the        *)
(* segment with that mode/fixed.                                           *)
(***************************************************************************)
C1_RowCountMatchesNativeWindow ==
    CroppedFrames =>
        Len(last.rows)
          = RangeLen(SlidingWindowCrop(extractor.window, last.segment,
                                       last.mode, last.fixed))

(***************************************************************************)
(* C2: crop(file, segment, mode='center', fixed=segment.duration) returns  *)
(* exactly the frames the extractor's own sliding window selects for the   *)
(* segment, each row being identified by the file time of its frame.       *)
(***************************************************************************)
C2_CropIsFullFileCrop ==
    (CroppedFrames /\ last.mode = "center"
       /\ last.fixed = SegmentDuration(last.segment)) =>
        RowFrames(last.rows)
          = FramesOf(extractor.window,
                     SlidingWindowCrop(extractor.window, last.segment,
                                       "center", last.fixed))

(***************************************************************************)
(* C3: with a context of zero, no normalizer and no augmenter,             *)
(* crop(file, segment) yields the rows of the full-file extraction at the  *)
(* frame range the extractor's own sliding window assigns to the segment.  *)
(***************************************************************************)
C3_ZeroContextIdempotence ==
    (CroppedFrames /\ Context(extractor) = 0
       /\ extractor.normalization = "None"
       /\ ~Augmented(extractor)
       /\ CallResult(extractor, current_file).outcome = "return"
       /\ last.mode = "center" /\ last.fixed = None) =>
        last.rows
          = FullFileRows(extractor, current_file,
                         SlidingWindowCrop(extractor.window, last.segment,
                                           "center", None))

(***************************************************************************)
(* C10: the row range (start, end) that crop slices with satisfies         *)
(* 0 <= start <= end <= number of rows computed over the extended segment, *)
(* so the slice has exactly end - start rows.  Read in the claim's favour: *)
(* an empty range (start >= end) is not held against it.                   *)
(***************************************************************************)
C10_RangeWithinFeatures ==
    (CroppedFrames /\ last.range[1] < last.range[2]) =>
        /\ 0 <= last.range[1]
        /\ last.range[1] <= last.range[2]
        /\ last.range[2] <= last.n
        /\ Len(last.rows) = last.range[2] - last.range[1]

(***************************************************************************)
(* C6: a given fixed duration fixes the number of rows: with the same mode *)
(* and fixed, crop returns as many rows for every other segment of the     *)
(* file as it returned for this one.  Stated for fixed = segment.duration  *)
(* and segments of that duration, the use crop documents.                  *)
(***************************************************************************)
C6_FixedFixesRowCount ==
    (CroppedFrames /\ last.fixed = SegmentDuration(last.segment)) =>
        \A other \in Segments(Duration(current_file)) :
            SegmentDuration(other) = last.fixed =>
                Len(CropResult(extractor, current_file, other, last.mode,
                               last.fixed, None, None).rows)
                  = Len(last.rows)

(***************************************************************************)
(* C4: the only segment crop passes to the audio loader's crop is          *)
(* xsegment = [max(0, s - context), min(duration, e + context)), with      *)
(* context the extractor's context plus the normalizer's, and              *)
(* 0 <= xsegment.start <= s <= e <= xsegment.end <= duration.              *)
(***************************************************************************)
C4_ContextClamping ==
    last.op = "crop" =>
        LET s == last.segment.start
            e == last.segment.end
            duration == current_file.duration
            context == extractor.context
                         + (IF extractor.normalization = "None" THEN 0
                            ELSE NormalizationContext)
            lo == IF s - context < 0 THEN 0 ELSE s - context
            hi == IF e + context > duration THEN duration ELSE e + context
            requests == { k \in DOMAIN last.loader : last.loader[k].fn = "crop" }
        IN  /\ Cardinality(requests) = 1
            /\ \A k \in requests : last.loader[k].segment = Segment(lo, hi)
            /\ last.xsegment = Segment(lo, hi)
            /\ 0 <= lo /\ lo <= s /\ s <= e /\ e <= hi /\ hi <= duration

\* a crop whose context is clamped at both ends of the file
C4_Witness ==
    /\ Cropped
    /\ last.segment.start < Context(extractor)
    /\ last.segment.end > Duration(current_file) - Context(extractor)
    /\ last.segment.start < last.segment.end
    /\ last.xsegment = Segment(0, Duration(current_file))

\* what crop does when the waveform loaded for the extended segment fails
\* audio validation: it fails with `exception`, whose message holds the
\* file's uri and the extended segment's start and end to three decimals;
\* nothing is returned and neither the augmenter, get_features nor the
\* normalizer is invoked
InvalidAudioFails(exception) ==
    (last.op = "crop" /\ InvalidAudio(current_file)) =>
        /\ last.outcome = exception
        /\ Len(last.message) = 7
        /\ last.message[2] = current_file.uri
        /\ last.message[4] \in Fmt3(last.xsegment.start)
        /\ last.message[6] \in Fmt3(last.xsegment.end)
        /\ last.rows = << >>
        /\ last.invoked = << >>

C7_NaNWarnsAndReturns ==
    (/\ last.op = "__call__"
     /\ ~NotImplemented(extractor, "get_features")
     /\ ~NotImplemented(extractor, "get_sliding_window")
     /\ current_file.audio # "ok") =>
        /\ last.outcome = "return"
        /\ last.warnings = << NaNMessage(current_file.uri) >>
        /\ Len(last.rows) = last.n
        /\ extractor.normalization = "None" =>
             last.rows = SubclassFeatures(extractor, current_file, 0,
                                          current_file.duration,
                                          Augmented(extractor))

(***************************************************************************)
(* C8: get_dimension, get_sliding_window and get_features fail with        *)
(* NotImplementedError when not overridden; an extractor that leaves       *)
(* get_features or get_sliding_window out ends every __call__, and every   *)
(* crop whose audio validates, in NotImplementedError without features.    *)
(***************************************************************************)
C8_NotImplemented ==
    /\ (last.op = "dimension" /\ "get_dimension" \notin extractor.overridden)
         => last.outcome = "NotImplementedError"
    /\ (last.op = "sliding_window"
          /\ "get_sliding_window" \notin extractor.overridden)
         => last.outcome = "NotImplementedError"
    /\ (/\ last.op \in {"__call__", "crop"}
        /\ \/ "get_features" \notin extractor.overridden
           \/ "get_sliding_window" \notin extractor.overridden
        /\ current_file.audio # "corrupt")
         => (last.outcome = "NotImplementedError" /\ last.rows = << >>)

(***************************************************************************)
(* C9: no call changes the extractor's augmentation, normalization,        *)
(* sample_rate or audio loader, nor the file descriptor passed in.         *)
(***************************************************************************)
C9_CallsLeaveExtractorAndFile ==
    [][ /\ extractor' = extractor
        /\ current_file' = current_file
        /\ last'.file = current_file' ]_vars

\* a call that failed, made on an extractor with both collaborators
C9_Witness ==
    /\ last.op = "crop"
    /\ last.outcome = "ValueError"
    /\ extractor.augmentation # "None"
    /\ extractor.normalization # "None"

====
